---- MODULE Spec2Model ----
(***************************************************************************)
(* The eledo front-end (bin/eledo.rs) and the bridge originator            *)
(* (src/bridge.rs: BridgeServer::new / start / serve / Drop), together     *)
(* with the environment they run against: the console, the bridge child    *)
(* and its pipe clients, and the relay threads.                            *)
(***************************************************************************)
EXTENDS Integers, Sequences, FiniteSets, TLC

VARIABLES
    pc,          \* position of the originator's main thread
    level,       \* PrivilegeLevel of the caller's token
    env,         \* which console pseudo-devices can be opened
    console,     \* the console: input mode, output mode, soft resets written
                 \*   and the output mode in force when the last one was,
                 \*   window and cursor of the screen buffer
    entry,       \* the console modes as they were when the originator started
    server,      \* the BridgeServer fields (NoServer before BridgeServer::new)
    args,        \* the argument vector built by start, as flag/value pairs
    created,     \* paths of the server pipes created so far
    child,       \* the launched process: how, under which token, state, code
    client,      \* per server pipe: state of the client end
    waited,      \* per server pipe: result of wait_for_pipe_client
    relay,       \* per server pipe: state of its relay thread
    ret,         \* value the bridged / direct path hands to the exit
    dropped,     \* the BridgeServer has been dropped
    exitCode     \* exit code of the front-end process

vars == <<pc, level, env, console, entry, server, args, created, child,
          client, waited, relay, ret, dropped, exitCode>>

----------------------------------------------------------------------------
(* Constants of the program and of the Windows API it uses. *)

ENABLE_PROCESSED_OUTPUT == 1
ENABLE_WRAP_AT_EOL_OUTPUT == 2
ENABLE_VIRTUAL_TERMINAL_PROCESSING == 4
DISABLE_NEWLINE_AUTO_RETURN == 8
ENABLE_VIRTUAL_TERMINAL_INPUT == 512

\* ENABLE_PROCESSED_OUTPUT | ENABLE_WRAP_AT_EOL_OUTPUT
\*   | ENABLE_VIRTUAL_TERMINAL_PROCESSING | DISABLE_NEWLINE_AUTO_RETURN:
\* the four flags are distinct bits, so the bitwise or is their sum.
OutputModeSet ==
    ENABLE_PROCESSED_OUTPUT + ENABLE_WRAP_AT_EOL_OUTPUT
        + ENABLE_VIRTUAL_TERMINAL_PROCESSING + DISABLE_NEWLINE_AUTO_RETURN

InputModeSet == ENABLE_VIRTUAL_TERMINAL_INPUT

\* std::process::exit(1), and the code of a main that returns Err
FailureCode == 1

----------------------------------------------------------------------------
(* Bounds and input sets. *)

\* the exit codes the target command is observed to return lie in 0..MaxExit
MaxExit == 1

ExitCodes == 0..MaxExit

\* console modes found on entry (ENABLE_* bit masks as the shell leaves them)
InitInputModes == {487, 503}
InitOutputModes == {3, 7}

Levels == {"NotPrivileged", "HighIntegrityAdmin", "Elevated"}

StdPipes == {"stdin", "stdout", "stderr"}
ConPipes == {"conin", "conout"}
Pipes == StdPipes \cup ConPipes
OutputPipes == {"stdout", "stderr", "conout"}
InputPipes == {"stdin", "conin"}

None == 0       \* Option::None of a pipe handle
NoMode == -1    \* Option::None of a saved console mode
NoCode == -1    \* no exit code yet

----------------------------------------------------------------------------
(* Tokens (token.rs is not part of the sources: modelled from the spec).  *)
(* A token is its integrity level, its administrator membership, and the   *)
(* process whose token it is or was derived from.                          *)

current_token(l) ==
    CASE l = "NotPrivileged" ->
             [integrity |-> "medium", admin |-> FALSE, of |-> "caller"]
      [] l = "HighIntegrityAdmin" ->
             [integrity |-> "high", admin |-> TRUE, of |-> "caller"]
      [] l = "Elevated" ->
             [integrity |-> "system", admin |-> TRUE, of |-> "caller"]

as_medium_integrity_safer_token(t) ==
    [t EXCEPT !.integrity = "medium", !.admin = FALSE]

\* the token of the interactive shell process
with_shell_process == [integrity |-> "medium", admin |-> FALSE, of |-> "shell"]

\* the identity the consent flow of ShellExecute("runas") grants
runas_token == [integrity |-> "high", admin |-> TRUE, of |-> "consent"]

\* a target token that is derived from the caller's token at every level
target_token_OfCaller(l) == as_medium_integrity_safer_token(current_token(l))

\* eledo.rs, let target_token = match level { ... }
target_token(l) ==
    IF l \in {"NotPrivileged", "HighIntegrityAdmin"}
    THEN as_medium_integrity_safer_token(current_token(l))
    ELSE with_shell_process

NoChild == [path |-> "none",
            token |-> [integrity |-> "none", admin |-> FALSE, of |-> "none"],
            state |-> "none", code |-> NoCode]

----------------------------------------------------------------------------
(* BridgeServer *)

NoServer ==
    [made |-> FALSE,
     stdin_is_pty |-> FALSE, stdout_is_pty |-> FALSE, stderr_is_pty |-> FALSE,
     stdin |-> None, stdout |-> None, stderr |-> None,
     conin |-> FALSE, conin_pipe |-> None,
     conout |-> FALSE, conout_pipe |-> None,
     input_mode |-> NoMode, output_mode |-> NoMode]

\* BridgeServer::new
new(i, o, e) ==
    [NoServer EXCEPT !.made = TRUE,
                     !.stdin_is_pty = i, !.stdout_is_pty = o, !.stderr_is_pty = e]

\* the field of the server that holds the server pipe of stream p
PipeField(s, p) ==
    CASE p = "stdin" -> s.stdin
      [] p = "stdout" -> s.stdout
      [] p = "stderr" -> s.stderr
      [] p = "conin" -> s.conin_pipe
      [] p = "conout" -> s.conout_pipe

Flag(p) ==
    CASE p = "stdin" -> "--stdin"
      [] p = "stdout" -> "--stdout"
      [] p = "stderr" -> "--stderr"
      [] p = "conin" -> "--conin"
      [] p = "conout" -> "--conout"

HasFlag(a, f) == \E i \in 1..Len(a) : a[i].flag = f

\* NamedPipeServer::for_token allocates a pipe under a name not used before
FreshPath == Cardinality(created) + 1

\* the window and the cursor GetConsoleScreenBufferInfo reports
ConsoleInfo == [Left |-> 0, Top |-> 10, Right |-> 119, Bottom |-> 39,
                CursorX |-> 5, CursorY |-> 13]

Init ==
    /\ pc = "main"
    /\ level \in Levels
    /\ env \in [conin : BOOLEAN, conout : BOOLEAN]
    /\ \E im \in InitInputModes, om \in InitOutputModes :
          /\ console = [input |-> im, output |-> om, resets |-> 0,
                        resetAt |-> NoMode, info |-> ConsoleInfo]
          /\ entry = [input |-> im, output |-> om]
    /\ server = NoServer
    /\ args = <<>>
    /\ created = {}
    /\ child = NoChild
    /\ client = [p \in Pipes |-> "none"]
    /\ waited = [p \in Pipes |-> "none"]
    /\ relay = [p \in Pipes |-> "none"]
    /\ ret = NoCode
    /\ dropped = FALSE
    /\ exitCode = NoCode

----------------------------------------------------------------------------
(* eledo.rs: main *)

\* main, up to Command::with_environment_for_token: reading the token, the
\* usage exit, the path lookup and the token derivation either all succeed or
\* the process ends with code 1 (exit(1), or main returning Err).
MainSetup(ok) ==
    /\ pc = "main"
    /\ IF ok
       THEN /\ pc' = "dispatch"
            /\ UNCHANGED exitCode
       ELSE /\ pc' = "done"
            /\ exitCode' = FailureCode
    /\ UNCHANGED <<level, env, console, entry, server, args, created, child,
                   client, waited, relay, ret, dropped>>

\* a dispatch that never bridges
UsesDirectPath_Always(l) == l \in Levels

\* a dispatch that sends HighIntegrityAdmin through the bridge as well
UsesDirectPath_ElevatedOnly(l) == l = "Elevated"

\* the match arm main takes for a caller of level l
UsesDirectPath(l) == l \in {"Elevated", "HighIntegrityAdmin"}

\* Elevated | HighIntegrityAdmin: command.spawn()?
DirectSpawn(ok) ==
    /\ pc = "dispatch"
    /\ UsesDirectPath(level)
    /\ IF ok
       THEN /\ child' = [path |-> "direct", token |-> target_token(level),
                         state |-> "running", code |-> NoCode]
            /\ pc' = "direct_wait"
            /\ UNCHANGED ret
       ELSE /\ ret' = FailureCode
            /\ pc' = "exit"
            /\ UNCHANGED child
    /\ UNCHANGED <<level, env, console, entry, server, args, created,
                   client, waited, relay, dropped, exitCode>>

\* let _ = proc.wait_for(None); proc.exit_code()?
DirectWait(ok) ==
    /\ pc = "direct_wait"
    /\ child.state = "exited"
    /\ ret' = IF ok THEN child.code ELSE FailureCode
    /\ pc' = "exit"
    /\ UNCHANGED <<level, env, console, entry, server, args, created, child,
                   client, waited, relay, dropped, exitCode>>

\* NotPrivileged: let mut server = BridgeServer::new()
ServerNew(i, o, e) ==
    /\ pc = "dispatch"
    /\ ~UsesDirectPath(level)
    /\ server' = new(i, o, e)
    /\ pc' = "start_stdin"
    /\ UNCHANGED <<level, env, console, entry, args, created, child,
                   client, waited, relay, ret, dropped, exitCode>>

\* std::process::exit(exit_code), or main returning the Err
MainExit ==
    /\ pc = "exit"
    /\ exitCode' = ret
    /\ pc' = "done"
    /\ UNCHANGED <<level, env, console, entry, server, args, created, child,
                   client, waited, relay, ret, dropped>>

----------------------------------------------------------------------------
(* BridgeServer::start *)

\* an Err leaves the function through `?`; main returns it and the server,
\* a local of main, is dropped
Fail == /\ ret' = FailureCode
        /\ pc' = "drop"

SetPipe(s, p, path) ==
    CASE p = "stdin" -> [s EXCEPT !.stdin = path]
      [] p = "stdout" -> [s EXCEPT !.stdout = path]
      [] p = "stderr" -> [s EXCEPT !.stderr = path]
      [] p = "conin" -> [s EXCEPT !.conin_pipe = path]
      [] p = "conout" -> [s EXCEPT !.conout_pipe = path]

IsPty(s, p) ==
    CASE p = "stdin" -> s.stdin_is_pty
      [] p = "stdout" -> s.stdout_is_pty
      [] p = "stderr" -> s.stderr_is_pty

\* a start that bridges the streams that are attached to the console
WantsPipe_WhenPty(s, p) == IsPty(s, p)

\* whether start gives stream p a server pipe
WantsPipe(s, p) == ~IsPty(s, p)

\* start that creates and keeps the pipe but pushes no flag for it
StartStream_NoFlag(p, next, ok) ==
    /\ IF ~WantsPipe(server, p)
       THEN /\ pc' = next
            /\ UNCHANGED <<server, args, created, ret>>
       ELSE IF ok
       THEN /\ server' = SetPipe(server, p, FreshPath)
            /\ created' = created \cup {FreshPath}
            /\ pc' = next
            /\ UNCHANGED <<args, ret>>
       ELSE /\ Fail
            /\ UNCHANGED <<server, args, created>>
    /\ UNCHANGED <<level, env, console, entry, child, client, waited, relay,
                   dropped, exitCode>>

\* if !self.<p>_is_pty { for_token(token)?; self.<p>.replace; args.push x 2 }
StartStream(p, next, ok) ==
    /\ IF ~WantsPipe(server, p)
       THEN /\ pc' = next
            /\ UNCHANGED <<server, args, created, ret>>
       ELSE IF ok
       THEN /\ server' = SetPipe(server, p, FreshPath)
            /\ created' = created \cup {FreshPath}
            /\ args' = Append(args, [flag |-> Flag(p), value |-> FreshPath])
            /\ pc' = next
            /\ UNCHANGED ret
       ELSE /\ Fail
            /\ UNCHANGED <<server, args, created>>
    /\ UNCHANGED <<level, env, console, entry, child, client, waited, relay,
                   dropped, exitCode>>

StartStdin(ok) == pc = "start_stdin" /\ StartStream("stdin", "start_stdout", ok)

StartStdout(ok) == pc = "start_stdout" /\ StartStream("stdout", "start_stderr", ok)

StartStderr(ok) == pc = "start_stderr" /\ StartStream("stderr", "start_conin", ok)

StartConinOutcomes == {"ok", "get_console_mode", "for_token", "set_console_mode"}

\* a conin block that sets the input mode before it reads the snapshot
StartConin_SetFirst(o) ==
    /\ pc = "start_conin"
    /\ IF ~env.conin
       THEN /\ pc' = "start_conout"
            /\ UNCHANGED <<server, args, created, console, ret>>
       ELSE CASE o = "set_console_mode" ->
                   /\ Fail
                   /\ UNCHANGED <<server, args, created, console>>
              [] o = "get_console_mode" ->
                   /\ console' = [console EXCEPT !.input = InputModeSet]
                   /\ Fail
                   /\ UNCHANGED <<server, args, created>>
              [] o = "for_token" ->
                   /\ console' = [console EXCEPT !.input = InputModeSet]
                   /\ server' = [server EXCEPT !.input_mode = InputModeSet]
                   /\ Fail
                   /\ UNCHANGED <<args, created>>
              [] o = "ok" ->
                   /\ server' = [server EXCEPT !.input_mode = InputModeSet,
                                               !.conin_pipe = FreshPath,
                                               !.conin = TRUE]
                   /\ created' = created \cup {FreshPath}
                   /\ args' = Append(args, [flag |-> "--conin", value |-> FreshPath])
                   /\ console' = [console EXCEPT !.input = InputModeSet]
                   /\ pc' = "start_conout"
                   /\ UNCHANGED ret
    /\ UNCHANGED <<level, env, entry, child, client, waited, relay, dropped,
                   exitCode>>

\* if let Ok(conin) = PipeHandle::open_pipe("CONIN$") { ... }
StartConin(o) ==
    /\ pc = "start_conin"
    /\ IF ~env.conin
       THEN /\ pc' = "start_conout"
            /\ UNCHANGED <<server, args, created, console, ret>>
       ELSE CASE o = "get_console_mode" ->
                   /\ Fail
                   /\ UNCHANGED <<server, args, created, console>>
              [] o = "for_token" ->
                   /\ server' = [server EXCEPT !.input_mode = console.input]
                   /\ Fail
                   /\ UNCHANGED <<args, created, console>>
              [] o = "set_console_mode" ->
                   /\ server' = [server EXCEPT !.input_mode = console.input,
                                               !.conin_pipe = FreshPath]
                   /\ created' = created \cup {FreshPath}
                   /\ args' = Append(args, [flag |-> "--conin", value |-> FreshPath])
                   /\ Fail
                   /\ UNCHANGED console
              [] o = "ok" ->
                   /\ server' = [server EXCEPT !.input_mode = console.input,
                                               !.conin_pipe = FreshPath,
                                               !.conin = TRUE]
                   /\ created' = created \cup {FreshPath}
                   /\ args' = Append(args, [flag |-> "--conin", value |-> FreshPath])
                   /\ console' = [console EXCEPT !.input = InputModeSet]
                   /\ pc' = "start_conout"
                   /\ UNCHANGED ret
    /\ UNCHANGED <<level, env, entry, child, client, waited, relay, dropped,
                   exitCode>>

\* i16::saturating_sub
saturating_sub(a, b) ==
    IF a - b > 32767 THEN 32767
    ELSE IF a - b < -32768 THEN -32768
    ELSE a - b

\* A usize (64 bits) is written u when u < 2^63 and u - 2^64 otherwise.
\* `x as usize` of an i16 extends the sign: the i16 -1 becomes 2^64 - 1, which
\* is written -1, so the cast keeps the number that stands for the value.
as_usize(x) == x

\* u + 1 leaves the range of a usize exactly when u = 2^64 - 1
AddOverflows(u) == u = -1

\* u + 1 where it does not panic: the sum, wrapped to 64 bits
add_one(u) == IF AddOverflows(u) THEN 0 ELSE u + 1

\* a usize as the i16 `as i16` makes of it: its low 16 bits, signed
as_i16(u) ==
    LET m == u % 65536
    IN  IF m >= 32768 THEN m - 65536 ELSE m

\* unsigned order and equality with a mathematical integer
ULess(a, b) == IF (a < 0) = (b < 0) THEN a < b ELSE b < 0

UIs(u, n) == u >= 0 /\ u = n

RECURSIVE Digits(_)
\* the decimal digits of a natural number below 2^31
Digits(n) == IF n < 10 THEN <<n>> ELSE Append(Digits(n \div 10), n % 10)

RECURSIVE Number(_)
\* the natural number a sequence of decimal digits denotes
Number(d) ==
    IF Len(d) = 0 THEN 0
    ELSE Number(SubSeq(d, 1, Len(d) - 1)) * 10 + d[Len(d)]

\* 2^64 = 18446744073709 * 10^6 + 551616
TwoTo64High == <<1, 8, 4, 4, 6, 7, 4, 4, 0, 7, 3, 7, 0, 9>>

TwoTo64Low == 551616

\* usize::to_string: for u = 2^64 - k with k <= 2^15 the low six digits are
\* 551616 - k and the digits above them are those of 2^64
to_string(u) ==
    IF u >= 0 THEN Digits(u) ELSE TwoTo64High \o Digits(TwoTo64Low + u)

\* the bridge child reading a decimal argument back into a usize
parse_usize(d) ==
    IF Len(d) = 20 /\ SubSeq(d, 1, 14) = TwoTo64High
    THEN Number(SubSeq(d, 15, 20)) - TwoTo64Low
    ELSE Number(d)

\* the viewport width and height start computes
ViewWidth(ci) == add_one(as_usize(saturating_sub(ci.Right, ci.Left)))

ViewHeight(ci) == add_one(as_usize(saturating_sub(ci.Bottom, ci.Top)))

\* whether one of the two `+ 1` overflows: a panic in a build with overflow
\* checks, a wrap to 0 in a build without
Overflows(ci) ==
    \/ AddOverflows(as_usize(saturating_sub(ci.Right, ci.Left)))
    \/ AddOverflows(as_usize(saturating_sub(ci.Bottom, ci.Top)))

\* the cursor start passes on
CursorColumn(ci) == as_usize(ci.CursorX)

CursorRow(ci) == as_usize(saturating_sub(ci.CursorY, ci.Top))

\* a geometry that forgets the `+ 1` of the window size
GeometryArgs_NoPlusOne(ci) ==
    << [flag |-> "--width",
        value |-> to_string(as_usize(saturating_sub(ci.Right, ci.Left)))],
       [flag |-> "--height",
        value |-> to_string(as_usize(saturating_sub(ci.Bottom, ci.Top)))],
       [flag |-> "--cursor-x", value |-> to_string(CursorColumn(ci))],
       [flag |-> "--cursor-y", value |-> to_string(CursorRow(ci))] >>

\* the --width, --height, --cursor-x, --cursor-y pairs, in the order pushed
GeometryArgs(ci) ==
    << [flag |-> "--width", value |-> to_string(ViewWidth(ci))],
       [flag |-> "--height", value |-> to_string(ViewHeight(ci))],
       [flag |-> "--cursor-x", value |-> to_string(CursorColumn(ci))],
       [flag |-> "--cursor-y", value |-> to_string(CursorRow(ci))] >>

\* BridgePtyClient::with_params: COORD { X: width as i16, Y: height as i16 }
with_params(width, height) == [X |-> as_i16(width), Y |-> as_i16(height)]

\* exit code of a process whose main thread panicked
PanicCode == 101

StartConoutOutcomes ==
    {"ok", "get_console_mode", "for_token", "GetConsoleScreenBufferInfo",
     "overflow", "set_console_mode"}

\* if let Ok(conout) = PipeHandle::open_pipe("CONOUT$") { ... }; Ok(args)
StartConout(o) ==
    /\ pc = "start_conout"
    /\ IF ~env.conout
       THEN /\ pc' = "start_for_command"
            /\ UNCHANGED <<server, args, created, console, ret>>
       ELSE CASE o = "get_console_mode" ->
                   /\ Fail
                   /\ UNCHANGED <<server, args, created, console>>
              [] o = "for_token" ->
                   /\ server' = [server EXCEPT !.output_mode = console.output]
                   /\ Fail
                   /\ UNCHANGED <<args, created, console>>
              [] o = "GetConsoleScreenBufferInfo" ->
                   /\ server' = [server EXCEPT !.output_mode = console.output,
                                               !.conout_pipe = FreshPath]
                   /\ created' = created \cup {FreshPath}
                   /\ args' = Append(args, [flag |-> "--conout", value |-> FreshPath])
                   /\ Fail
                   /\ UNCHANGED console
              [] o = "overflow" ->
                   /\ Overflows(console.info)
                   /\ server' = [server EXCEPT !.output_mode = console.output,
                                               !.conout_pipe = FreshPath]
                   /\ created' = created \cup {FreshPath}
                   /\ args' = Append(args, [flag |-> "--conout", value |-> FreshPath])
                   /\ ret' = PanicCode
                   /\ pc' = "drop"
                   /\ UNCHANGED console
              [] o = "set_console_mode" ->
                   /\ server' = [server EXCEPT !.output_mode = console.output,
                                               !.conout_pipe = FreshPath]
                   /\ created' = created \cup {FreshPath}
                   /\ args' = Append(args, [flag |-> "--conout", value |-> FreshPath])
                                 \o GeometryArgs(console.info)
                   /\ Fail
                   /\ UNCHANGED console
              [] o = "ok" ->
                   /\ server' = [server EXCEPT !.output_mode = console.output,
                                               !.conout_pipe = FreshPath,
                                               !.conout = TRUE]
                   /\ created' = created \cup {FreshPath}
                   /\ args' = Append(args, [flag |-> "--conout", value |-> FreshPath])
                                 \o GeometryArgs(console.info)
                   /\ console' = [console EXCEPT !.output = OutputModeSet]
                   /\ pc' = "start_for_command"
                   /\ UNCHANGED ret
    /\ UNCHANGED <<level, env, entry, child, client, waited, relay, dropped,
                   exitCode>>

\* server.start_for_command(&mut argv, &target_token)?: after start has
\* returned Ok(args), locating the bridge executable and building its command
\* (the function is not part of the sources: modelled from the spec)
StartForCommand(ok) ==
    /\ pc = "start_for_command"
    /\ IF ok
       THEN /\ pc' = "shell_execute"
            /\ UNCHANGED ret
       ELSE Fail
    /\ UNCHANGED <<level, env, console, entry, server, args, created, child,
                   client, waited, relay, dropped, exitCode>>

\* let proc = bridge_cmd.shell_execute("runas")?
ShellExecute(ok) ==
    /\ pc = "shell_execute"
    /\ IF ok
       THEN /\ child' = [path |-> "runas", token |-> runas_token,
                         state |-> "running", code |-> NoCode]
            /\ pc' = "serve_conin"
            /\ UNCHANGED ret
       ELSE /\ Fail
            /\ UNCHANGED child
    /\ UNCHANGED <<level, env, console, entry, server, args, created,
                   client, waited, relay, dropped, exitCode>>

----------------------------------------------------------------------------
(* BridgeServer::serve *)

\* wait_for_pipe_client blocks until a client has connected to the server end
\* (pipe.rs is not part of the sources: modelled from the spec). It returns an
\* IoResult: Ok needs the client, an Err is an answer the OS may give.
Connected(p) == client[p] # "none"

CanReturn(p, o) == o = "err" \/ Connected(p)

\* if let Some(mut conin) = self.conin.take() {
\*     conin_dest.wait_for_pipe_client()?; thread::spawn(copy) }
ServeConin(o) ==
    /\ pc = "serve_conin"
    /\ IF ~server.conin
       THEN /\ pc' = "serve_conout"
            /\ UNCHANGED <<server, waited, relay, ret>>
       ELSE /\ CanReturn("conin", o)
            /\ server' = [server EXCEPT !.conin = FALSE, !.conin_pipe = None]
            /\ waited' = [waited EXCEPT !["conin"] = o]
            /\ IF o = "ok"
               THEN /\ relay' = [relay EXCEPT !["conin"] = "running"]
                    /\ pc' = "serve_conout"
                    /\ UNCHANGED ret
               ELSE /\ Fail
                    /\ UNCHANGED relay
    /\ UNCHANGED <<level, env, console, entry, args, created, child, client,
                   dropped, exitCode>>

\* whether serve starts the relay thread of output pipe p after a wait that
\* returned o: let _ = src.wait_for_pipe_client(); thread::spawn(...)
StartsOutputRelay(p, o) == TRUE

\* let conout_thread = self.conout.take().map(|mut conout| { ... })
ServeConout(o) ==
    /\ pc = "serve_conout"
    /\ IF ~server.conout
       THEN UNCHANGED <<server, waited, relay>>
       ELSE /\ CanReturn("conout", o)
            /\ server' = [server EXCEPT !.conout = FALSE, !.conout_pipe = None]
            /\ waited' = [waited EXCEPT !["conout"] = o]
            /\ IF StartsOutputRelay("conout", o)
               THEN relay' = [relay EXCEPT !["conout"] = "running"]
               ELSE UNCHANGED relay
    /\ pc' = "serve_stdin"
    /\ UNCHANGED <<level, env, console, entry, args, created, child, client,
                   ret, dropped, exitCode>>

\* serve that starts the stdin relay before waiting for the client
ServeStdin_RelayFirst(o) ==
    /\ pc = "serve_stdin"
    /\ IF server.stdin = None
       THEN /\ pc' = "serve_stdout"
            /\ UNCHANGED <<server, waited, relay>>
       ELSE /\ server' = [server EXCEPT !.stdin = None]
            /\ relay' = [relay EXCEPT !["stdin"] = "running"]
            /\ pc' = "serve_stdout"
            /\ UNCHANGED waited
    /\ UNCHANGED <<level, env, console, entry, args, created, child, client,
                   ret, dropped, exitCode>>

\* if let Some(mut stdin_dest) = self.stdin.take() {
\*     stdin_dest.wait_for_pipe_client()?; thread::spawn(copy) }
ServeStdin(o) ==
    /\ pc = "serve_stdin"
    /\ IF server.stdin = None
       THEN /\ pc' = "serve_stdout"
            /\ UNCHANGED <<server, waited, relay, ret>>
       ELSE /\ CanReturn("stdin", o)
            /\ server' = [server EXCEPT !.stdin = None]
            /\ waited' = [waited EXCEPT !["stdin"] = o]
            /\ IF o = "ok"
               THEN /\ relay' = [relay EXCEPT !["stdin"] = "running"]
                    /\ pc' = "serve_stdout"
                    /\ UNCHANGED ret
               ELSE /\ Fail
                    /\ UNCHANGED relay
    /\ UNCHANGED <<level, env, console, entry, args, created, child, client,
                   dropped, exitCode>>

\* let <p>_thread = self.<p>.take().map(|mut src| {
\*     let _ = src.wait_for_pipe_client(); thread::spawn(copy) })
ServeOutput(p, next, o) ==
    /\ IF PipeField(server, p) = None
       THEN UNCHANGED <<server, waited, relay>>
       ELSE /\ CanReturn(p, o)
            /\ server' = SetPipe(server, p, None)
            /\ waited' = [waited EXCEPT ![p] = o]
            /\ IF StartsOutputRelay(p, o)
               THEN relay' = [relay EXCEPT ![p] = "running"]
               ELSE UNCHANGED relay
    /\ pc' = next
    /\ UNCHANGED <<level, env, console, entry, args, created, child, client,
                   ret, dropped, exitCode>>

ServeStdout(o) == pc = "serve_stdout" /\ ServeOutput("stdout", "serve_stderr", o)

ServeStderr(o) == pc = "serve_stderr" /\ ServeOutput("stderr", "serve_wait", o)

\* let _ = proc.wait_for(None)?
ServeWait(o) ==
    /\ pc = "serve_wait"
    /\ IF o = "ok"
       THEN /\ child.state = "exited"
            /\ pc' = "join_stdout"
            /\ UNCHANGED ret
       ELSE Fail
    /\ UNCHANGED <<level, env, console, entry, server, args, created, child,
                   client, waited, relay, dropped, exitCode>>

\* a join that waits for every relay thread, the input relays included
JoinReturns_AllRelays(p) == \A q \in Pipes : relay[q] \in {"none", "done"}

\* whether t.join() on the relay thread of p returns
JoinReturns(p) == relay[p] \in {"none", "done"}

\* <p>_thread.map(|t| t.join())
Join(p, next) ==
    /\ JoinReturns(p)
    /\ pc' = next
    /\ UNCHANGED <<level, env, console, entry, server, args, created, child,
                   client, waited, relay, ret, dropped, exitCode>>

JoinStdout == pc = "join_stdout" /\ Join("stdout", "join_stderr")

JoinStderr == pc = "join_stderr" /\ Join("stderr", "join_conout")

JoinConout == pc = "join_conout" /\ Join("conout", "exit_code")

\* let exit_code = proc.exit_code()?; Ok(exit_code)
ServeExitCode(ok) ==
    /\ pc = "exit_code"
    /\ ret' = IF ok THEN child.code ELSE FailureCode
    /\ pc' = "drop"
    /\ UNCHANGED <<level, env, console, entry, server, args, created, child,
                   client, waited, relay, dropped, exitCode>>

----------------------------------------------------------------------------
(* impl Drop for BridgeServer *)

\* write!(&mut conout, "\x1b[!p")
soft_reset(c) == [c EXCEPT !.resets = c.resets + 1, !.resetAt = c.output]

\* a drop that restores the output mode only
drop_OutputOnly(s, c) ==
    IF s.output_mode # NoMode /\ env.conout
    THEN [soft_reset(c) EXCEPT !.output = s.output_mode]
    ELSE c

\* a drop that restores the output mode first and writes the soft reset last
drop_ResetLast(s, c) ==
    LET afterOut ==
            IF s.output_mode # NoMode /\ env.conout
            THEN soft_reset([c EXCEPT !.output = s.output_mode])
            ELSE c
    IN  IF s.input_mode # NoMode /\ env.conin
        THEN [afterOut EXCEPT !.input = s.input_mode]
        ELSE afterOut

\* the console after drop: a soft reset and the saved output mode when
\* output_mode is Some and CONOUT$ opens, the saved input mode when input_mode
\* is Some and CONIN$ opens
drop(s, c) ==
    LET afterOut ==
            IF s.output_mode # NoMode /\ env.conout
            THEN [soft_reset(c) EXCEPT !.output = s.output_mode]
            ELSE c
    IN  IF s.input_mode # NoMode /\ env.conin
        THEN [afterOut EXCEPT !.input = s.input_mode]
        ELSE afterOut

\* the server goes out of scope: at the end of serve, which took it by value,
\* or when main returns an Err of start_for_command or shell_execute
DropServer ==
    /\ pc = "drop"
    /\ console' = drop(server, console)
    /\ dropped' = TRUE
    /\ pc' = "exit"
    /\ UNCHANGED <<level, env, entry, server, args, created, child, client,
                   waited, relay, ret, exitCode>>

----------------------------------------------------------------------------
(* The bridge child, its pipe clients, and the relay threads, for as long   *)
(* as the originator runs (pc # "done").                                   *)

\* The bridge child opens the client end of a pipe it was given a flag for.
\* BridgePtyClient::with_params opens conout first, then conin, and is given
\* both paths.
BridgeConnect(p) ==
    /\ pc # "done"
    /\ child.path = "runas"
    /\ child.state = "running"
    /\ client[p] = "none"
    /\ HasFlag(args, Flag(p))
    /\ p \in ConPipes => HasFlag(args, "--conin") /\ HasFlag(args, "--conout")
    /\ p = "conin" => client["conout"] # "none"
    /\ client' = [client EXCEPT ![p] = "connected"]
    /\ UNCHANGED <<pc, level, env, console, entry, server, args, created,
                   child, waited, relay, ret, dropped, exitCode>>

\* The launched process exits with the target's code. Its client ends close,
\* unless a process it left behind still holds them (leak).
ChildExit(code, leak) ==
    /\ pc # "done"
    /\ child.state = "running"
    /\ child' = [child EXCEPT !.state = "exited", !.code = code]
    /\ client' = [p \in Pipes |->
                    IF client[p] = "connected" /\ ~leak THEN "closed"
                    ELSE client[p]]
    /\ UNCHANGED <<pc, level, env, console, entry, server, args, created,
                   waited, relay, ret, dropped, exitCode>>

Running(p) == relay[p] \in {"running", "copied"}

\* std::io::copy moves bytes between the pipe and the local stream
RelayCopy(p) ==
    /\ pc # "done"
    /\ Running(p)
    /\ client[p] = "connected"
    /\ relay' = [relay EXCEPT ![p] = "copied"]
    /\ UNCHANGED <<pc, level, env, console, entry, server, args, created,
                   child, client, waited, ret, dropped, exitCode>>

\* a relay whose failed copy makes serve return an Err
RelayEnd_Fatal(p) ==
    /\ pc \notin {"done", "exit", "drop"}
    /\ Running(p)
    /\ client[p] # "connected" \/ p \in InputPipes
    /\ relay' = [relay EXCEPT ![p] = "done"]
    /\ ret' = FailureCode
    /\ pc' = "drop"
    /\ UNCHANGED <<level, env, console, entry, server, args, created,
                   child, client, waited, dropped, exitCode>>

\* std::io::copy returns: the pipe is broken or was never connected, or the
\* local source of an input relay reached its end
RelayEnd(p) ==
    /\ pc # "done"
    /\ Running(p)
    /\ client[p] # "connected" \/ p \in InputPipes
    /\ relay' = [relay EXCEPT ![p] = "done"]
    /\ UNCHANGED <<pc, level, env, console, entry, server, args, created,
                   child, client, waited, ret, dropped, exitCode>>

----------------------------------------------------------------------------
Outcomes == {"ok", "err"}

Next ==
    \/ \E ok \in BOOLEAN : MainSetup(ok)
    \/ \E ok \in BOOLEAN : DirectSpawn(ok)
    \/ \E ok \in BOOLEAN : DirectWait(ok)
    \/ \E i, o, e \in BOOLEAN : ServerNew(i, o, e)
    \/ \E ok \in BOOLEAN : StartStdin(ok)
    \/ \E ok \in BOOLEAN : StartStdout(ok)
    \/ \E ok \in BOOLEAN : StartStderr(ok)
    \/ \E o \in StartConinOutcomes : StartConin(o)
    \/ \E o \in StartConoutOutcomes : StartConout(o)
    \/ \E ok \in BOOLEAN : StartForCommand(ok)
    \/ \E ok \in BOOLEAN : ShellExecute(ok)
    \/ \E o \in Outcomes : ServeConin(o)
    \/ \E o \in Outcomes : ServeConout(o)
    \/ \E o \in Outcomes : ServeStdin(o)
    \/ \E o \in Outcomes : ServeStdout(o)
    \/ \E o \in Outcomes : ServeStderr(o)
    \/ \E o \in Outcomes : ServeWait(o)
    \/ JoinStdout
    \/ JoinStderr
    \/ JoinConout
    \/ \E ok \in BOOLEAN : ServeExitCode(ok)
    \/ DropServer
    \/ MainExit
    \/ \E p \in Pipes : BridgeConnect(p)
    \/ \E code \in ExitCodes, leak \in BOOLEAN : ChildExit(code, leak)
    \/ \E p \in Pipes : RelayCopy(p)
    \/ \E p \in Pipes : RelayEnd(p)

Spec == Init /\ [][Next]_vars

\* The main thread takes its next step when that step can succeed; an Err
\* of an OS call is an answer the environment may give, never one it owes.
MainProgress ==
    \/ MainSetup(TRUE) \/ DirectSpawn(TRUE) \/ DirectWait(TRUE)
    \/ \E i, o, e \in BOOLEAN : ServerNew(i, o, e)
    \/ StartStdin(TRUE) \/ StartStdout(TRUE) \/ StartStderr(TRUE)
    \/ StartConin("ok") \/ StartConout("ok")
    \/ StartForCommand(TRUE) \/ ShellExecute(TRUE)
    \/ ServeConin("ok") \/ ServeConout("ok") \/ ServeStdin("ok")
    \/ ServeStdout("ok") \/ ServeStderr("ok") \/ ServeWait("ok")
    \/ JoinStdout \/ JoinStderr \/ JoinConout
    \/ ServeExitCode(TRUE) \/ DropServer \/ MainExit

\* An output relay whose pipe read fails returns from its copy.
OutputRelayProgress == \E p \in OutputPipes : RelayEnd(p)

FairSpec ==
    Init /\ [][Next]_vars /\ WF_vars(MainProgress) /\ WF_vars(OutputRelayProgress)

----------------------------------------------------------------------------
(* Properties *)

Launched == child.path # "none"

Bridged == child.path = "runas"

SnapshotTaken == server.input_mode # NoMode \/ server.output_mode # NoMode

C2_ExitCodeIsChildCode ==
    pc = "done" =>
        /\ Bridged => exitCode = child.code
        /\ ~Launched => exitCode = FailureCode

\* C3 (as claimed): a relay runs only on a pipe whose wait_for_client
\* completed successfully.
C3_RelayOnlyAfterConnect ==
    \A p \in Pipes : relay[p] # "none" => waited[p] = "ok"

\* C3 (amended): a relay is started, and bytes are copied, on a pipe only
\* after wait_for_client on that pipe has returned; for stdin and conin it
\* returned Ok; for stdout, stderr and conout the relay is started whatever
\* the wait returned.
C3_RelayAfterWaitReturned ==
    \A p \in Pipes :
        /\ relay[p] # "none" => waited[p] # "none"
        /\ (p \in InputPipes /\ relay[p] # "none") => waited[p] = "ok"
        /\ (p \in OutputPipes /\ waited[p] # "none") => relay[p] # "none"

\* an output relay started after a failed wait, next to an input relay that
\* has copied bytes after a successful one
C3_Witness ==
    /\ waited["stdout"] = "err" /\ relay["stdout"] # "none"
    /\ waited["conin"] = "ok" /\ relay["conin"] = "copied"

PipeFlags == {Flag(p) : p \in Pipes}

\* the indices of args whose flag is f
FlagAt(a, f) == {i \in 1..Len(a) : a[i].flag = f}

\* the paths named by the pipe flags of a
FlagPaths(a) == {a[i].value : i \in {j \in 1..Len(a) : a[j].flag \in PipeFlags}}

OneToOne(s, a) ==
    /\ \A p \in Pipes :
          PipeField(s, p) # None =>
              /\ Cardinality(FlagAt(a, Flag(p))) = 1
              /\ \A i \in FlagAt(a, Flag(p)) : a[i].value = PipeField(s, p)
    /\ \A p \in Pipes : FlagAt(a, Flag(p)) # {} => PipeField(s, p) # None
    /\ \A p, q \in Pipes :
          (p # q /\ PipeField(s, p) # None) => PipeField(s, p) # PipeField(s, q)

\* C4: when the child is launched, the server pipes the originator holds and
\* the pipe flags of the arguments start returned correspond one to one, and
\* the pipes created are, from then on, exactly the ones the flags name.
C4_PipesMatchFlags ==
    /\ pc \in {"shell_execute", "serve_conin"} =>
          /\ OneToOne(server, args)
          /\ created = {PipeField(server, p) : p \in Pipes} \ {None}
    /\ Bridged => created = FlagPaths(args)

\* the child launched with all five pipes held
C4_Witness ==
    /\ pc = "serve_conin" /\ Bridged
    /\ \A p \in Pipes : PipeField(server, p) # None
    /\ Cardinality(created) = 5

JoinPcs == {"join_stdout", "join_stderr", "join_conout"}

\* C5 (as claimed): once the child has exited and serve joins the output
\* relays, serve returns, also when an output relay never terminates.
C5_JoinIsBounded == (pc \in JoinPcs) ~> (pc = "done")

ConnectPcs ==
    {"serve_conin", "serve_conout", "serve_stdin", "serve_stdout", "serve_stderr"}

\* C6 (as claimed): once the bridge child has exited, the originator gets
\* past its wait_for_client calls, to the child-exit wait or to its return.
C6_EndsWhenChildEnds ==
    (Bridged /\ child.state = "exited") ~> (pc \notin ConnectPcs)

\* C7 (as claimed): the server is dropped, and the console restored, only
\* after the bridge child has exited and the output relays have finished.
C7_RestoreAfterChildExit ==
    (dropped /\ Bridged) =>
        /\ child.state = "exited"
        /\ \A p \in OutputPipes : relay[p] \in {"none", "done"}

NoBridge ==
    /\ ~server.made
    /\ created = {}
    /\ args = <<>>
    /\ child.path # "runas"
    /\ ~dropped
    /\ console.input = entry.input
    /\ console.output = entry.output
    /\ console.resets = 0

C10_ConsoleFlagsPaired ==
    pc = "start_for_command" =>
        /\ HasFlag(args, "--conin") <=> HasFlag(args, "--conout")
        /\ HasFlag(args, "--width") <=> HasFlag(args, "--conout")
        /\ HasFlag(args, "--height") <=> HasFlag(args, "--conout")


\* C11: a console mode differs from the mode found on entry only while the
\* snapshot field of that mode is set, and the originator changes a console
\* mode only before the child is launched or when the server is dropped.
C11_MutationAfterSnapshot ==
    /\ [](/\ console.input # entry.input => server.input_mode = entry.input
          /\ console.output # entry.output => server.output_mode = entry.output)
    /\ [][(console'.input # console.input \/ console'.output # console.output)
              => (~Launched \/ dropped')]_vars

\* start has changed both modes with both snapshots recorded, child not yet
\* launched
C11_Witness ==
    /\ pc = "shell_execute"
    /\ console.input = InputModeSet /\ console.output = OutputModeSet
    /\ server.input_mode = entry.input /\ server.output_mode = entry.output
    /\ ~Launched


\* the positions at which the three stream blocks of start have run and
\* serve has not yet taken the pipes
AfterStreamBlocks ==
    {"start_conin", "start_conout", "start_for_command", "shell_execute",
     "serve_conin"}

\* C12: for each of stdin, stdout and stderr, start creates a server pipe
\* and pushes its flag exactly when that stream is not attached to the
\* console, whatever the other two streams are and whether or not a console
\* is present.
C12_StreamPipeIffNotPty ==
    pc \in AfterStreamBlocks =>
        \A p \in StdPipes :
            /\ PipeField(server, p) # None <=> ~IsPty(server, p)
            /\ HasFlag(args, Flag(p)) <=> ~IsPty(server, p)
            /\ PipeField(server, p) # None => PipeField(server, p) \in created

\* a console is present and only stdout is redirected: stdout alone has a
\* pipe and a flag
C12_Witness ==
    /\ pc = "start_for_command"
    /\ env.conin /\ env.conout
    /\ server.stdin_is_pty /\ ~server.stdout_is_pty /\ server.stderr_is_pty
    /\ server.stdin = None /\ server.stdout # None /\ server.stderr = None
    /\ HasFlag(args, "--stdout") /\ ~HasFlag(args, "--stdin")


\* The runs of one console: the lowest of the entry modes. Termination does
\* not read the console modes.
OneConsoleInit ==
    /\ Init
    /\ \A m \in InitInputModes : entry.input <= m
    /\ \A m \in InitOutputModes : entry.output <= m

JoinSpec ==
    OneConsoleInit /\ [][Next]_vars
        /\ WF_vars(MainProgress) /\ WF_vars(OutputRelayProgress)

OutputRelaysFinished == \A p \in OutputPipes : relay[p] \in {"none", "done"}

\* C13: once the child has exited and the output relays have finished, serve
\* returns and the originator terminates, also when the stdin or the conin
\* relay never ends: the input relays are not joined.
C13_InputRelaysNotJoined ==
    (pc \in JoinPcs \cup {"exit_code"} /\ OutputRelaysFinished) ~> (pc = "done")

\* the originator has terminated with the child's code while both input
\* relays were still running
C13_Witness ==
    /\ pc = "done" /\ Bridged /\ dropped
    /\ Running("stdin") /\ Running("conin")
    /\ relay["stdout"] = "done"
    /\ exitCode = child.code


\* a relay thread ends in this step
RelayEnds(p) == relay[p] # "done" /\ relay'[p] = "done"

\* C14: the end of a relay's copy (broken pipe, end of file) ends that relay
\* thread only: it leaves the main thread, the other relays and the value
\* serve returns as they are, and a value serve returns after its waits is
\* the bridge child's exit code, or 1 for an Err of exit_code itself.
C14_RelayFailureNotFatal ==
    /\ [][\A p \in Pipes :
             RelayEnds(p) =>
                 /\ UNCHANGED <<pc, ret, exitCode, child, dropped, console>>
                 /\ \A q \in Pipes \ {p} : relay'[q] = relay[q]]_vars
    /\ [][(pc = "exit_code" /\ pc' # pc) =>
             ret' \in {child.code, FailureCode}]_vars
    /\ []((pc = "done" /\ Bridged /\ exitCode # FailureCode) =>
             exitCode = child.code)

\* relays ended on a closed pipe, and the front-end exited with the child's
\* code 0
C14_Witness ==
    /\ pc = "done" /\ Bridged
    /\ relay["stdout"] = "done" /\ client["stdout"] = "closed"
    /\ relay["stdin"] = "done" /\ relay["conout"] = "done"
    /\ child.code = 0 /\ exitCode = 0


\* C15 (as claimed): for an Elevated and for a HighIntegrityAdmin caller the
\* child is spawned directly under the medium-integrity token derived from
\* the caller's own token.
C15_DerivedFromCaller ==
    child.path = "direct" =>
        child.token = as_medium_integrity_safer_token(current_token(level))

\* C15 (amended): for a HighIntegrityAdmin caller the token of the direct
\* spawn is the medium-integrity token derived from the caller's own token;
\* for an Elevated caller it is the token of the interactive shell process,
\* which is not derived from the caller's token.
C15_DerivedOrShellToken ==
    child.path = "direct" =>
        /\ level \in {"HighIntegrityAdmin", "Elevated"}
        /\ level = "HighIntegrityAdmin" =>
              /\ child.token = as_medium_integrity_safer_token(current_token(level))
              /\ child.token.of = "caller"
        /\ level = "Elevated" =>
              /\ child.token = with_shell_process
              /\ child.token.of = "shell"

\* an Elevated caller's command has run under the shell's token
C15_Witness ==
    /\ level = "Elevated" /\ child.path = "direct" /\ child.state = "exited"
    /\ child.token.of = "shell"
    /\ pc = "done"


----------------------------------------------------------------------------
(* The geometry start reads, over the windows and cursors a screen buffer
   can report: SMALL_RECT and COORD fields are i16. *)

\* columns of the window edges: left of the buffer, its origin, a window
\* scrolled right, and the two largest i16 values
Columns == {-1, 0, 10, 89, 32766, 32767}

Rows == {0, 10, 39}

CursorColumns == {0, 5, 85}

CursorRows == {0, 13, 39}

ConsoleInfos ==
    [Left : Columns, Right : Columns, Top : Rows, Bottom : Rows,
     CursorX : CursorColumns, CursorY : CursorRows]

\* an unprivileged caller on a console, with any window and cursor
GeomInit ==
    /\ pc = "main"
    /\ level = "NotPrivileged"
    /\ env = [conin |-> TRUE, conout |-> TRUE]
    /\ \E ci \in ConsoleInfos :
          console = [input |-> 487, output |-> 3, resets |-> 0,
                     resetAt |-> NoMode, info |-> ci]
    /\ entry = [input |-> 487, output |-> 3]
    /\ server = NoServer
    /\ args = <<>>
    /\ created = {}
    /\ child = NoChild
    /\ client = [p \in Pipes |-> "none"]
    /\ waited = [p \in Pipes |-> "none"]
    /\ relay = [p \in Pipes |-> "none"]
    /\ ret = NoCode
    /\ dropped = FALSE
    /\ exitCode = NoCode

\* main up to the end of start, with the three standard streams on the console
GeomNext ==
    \/ \E ok \in BOOLEAN : MainSetup(ok)
    \/ ServerNew(TRUE, TRUE, TRUE)
    \/ StartStdin(TRUE)
    \/ StartStdout(TRUE)
    \/ StartStderr(TRUE)
    \/ \E o \in StartConinOutcomes : StartConin(o)
    \/ \E o \in StartConoutOutcomes : StartConout(o)
    \/ DropServer
    \/ MainExit

GeomSpec == GeomInit /\ [][GeomNext]_vars

\* the value pushed after a flag
ArgValue(a, f) == a[CHOOSE i \in 1..Len(a) : a[i].flag = f].value

\* start has returned Ok with the geometry on the command line
GeometryPassed == pc = "start_for_command" /\ HasFlag(args, "--width")

\* what the bridge child reads back
Width == parse_usize(ArgValue(args, "--width"))

Height == parse_usize(ArgValue(args, "--height"))

CursorX == parse_usize(ArgValue(args, "--cursor-x"))

CursorY == parse_usize(ArgValue(args, "--cursor-y"))

WidthHolds ==
    /\ UIs(Width, console.info.Right - console.info.Left + 1)
    /\ Width >= 1
    /\ with_params(Width, Height).X = console.info.Right - console.info.Left + 1

HeightHolds ==
    /\ UIs(Height, console.info.Bottom - console.info.Top + 1)
    /\ Height >= 1
    /\ with_params(Width, Height).Y = console.info.Bottom - console.info.Top + 1

\* C17 as stated: for every window the width and height passed are the
\* inclusive sizes of the window, at least 1, and reach the pseudoconsole
\* unchanged.
C17_WindowSizeForAnyWindow == GeometryPassed => WidthHolds /\ HeightHolds

\* an extent whose size, one more, still fits the i16 of a COORD
WellFormed(lo, hi) == 0 <= hi - lo /\ hi - lo < 32767

\* C17: for a window whose right edge is not left of its left edge and spans
\* at most 32766 columns, the width passed is Right - Left + 1, is at least 1
\* and is the X of the pseudoconsole's COORD; likewise the height for Top and
\* Bottom and the Y.
C17_WindowSize ==
    GeometryPassed =>
        /\ WellFormed(console.info.Left, console.info.Right) => WidthHolds
        /\ WellFormed(console.info.Top, console.info.Bottom) => HeightHolds

\* the widest window the claim holds for: 32767 columns, 30 rows
C17_Witness ==
    /\ GeometryPassed
    /\ console.info.Left = 0 /\ console.info.Right = 32766
    /\ console.info.Top = 10 /\ console.info.Bottom = 39
    /\ Width = 32767 /\ Height = 30
    /\ with_params(Width, Height) = [X |-> 32767, Y |-> 30]

CursorInWindow ==
    /\ console.info.Left <= console.info.CursorX
    /\ console.info.CursorX <= console.info.Right
    /\ console.info.Top <= console.info.CursorY
    /\ console.info.CursorY <= console.info.Bottom

\* C18: with the cursor inside the window, the cursor position passed lies
\* inside the viewport passed: 0 <= cursor-x < width, 0 <= cursor-y < height,
\* and cursor-y is the cursor's row counted from the top of the window.
C18_CursorInsideViewport ==
    GeometryPassed /\ CursorInWindow =>
        /\ ULess(CursorX, Width)
        /\ ULess(CursorY, Height)
        /\ UIs(CursorY, console.info.CursorY - console.info.Top)

----------------------------------------------------------------------------
(* start is `pub fn start(&mut self, ...)`: the owner of a server may call it
   again on the same server. *)

\* the number of pipes the repeated calls may create in all
MaxCreated == 5

\* a further call of start on the server whose start has returned Ok: a new
\* argument vector, the same server
StartAgain ==
    /\ pc = "start_for_command"
    /\ Cardinality(created) <= MaxCreated
    /\ pc' = "start_stdin"
    /\ args' = <<>>
    /\ UNCHANGED <<level, env, console, entry, server, created, child, client,
                   waited, relay, ret, dropped, exitCode>>

\* main up to the end of start, start called any number of times, and the
\* server dropped when the launch is given up
StartNext ==
    \/ \E ok \in BOOLEAN : MainSetup(ok)
    \/ \E i, o, e \in BOOLEAN : ServerNew(i, o, e)
    \/ \E ok \in BOOLEAN : StartStdin(ok)
    \/ \E ok \in BOOLEAN : StartStdout(ok)
    \/ \E ok \in BOOLEAN : StartStderr(ok)
    \/ \E o \in StartConinOutcomes : StartConin(o)
    \/ \E o \in StartConoutOutcomes : StartConout(o)
    \/ StartAgain
    \/ StartForCommand(FALSE)
    \/ DropServer
    \/ MainExit

StartSpec == Init /\ [][StartNext]_vars

\* C19: whatever the number of start calls, a snapshot held by the server is
\* the console mode found on entry, and after the drop of the server the
\* console modes are those found on entry.
C19_SnapshotSurvivesRestart ==
    /\ server.input_mode # NoMode => server.input_mode = entry.input
    /\ server.output_mode # NoMode => server.output_mode = entry.output
    /\ dropped => console.input = entry.input /\ console.output = entry.output

====
